---- MODULE Spec2Model ----
(***************************************************************************)
(* Single-decree Paxos simulator of paxos_analysis/paxos_simulation.py:    *)
(* NetworkSimulator, PaxosProposer, PaxosAcceptor, PaxosLearner and the    *)
(* driver simulate_paxos.  Wall-clock time is abstracted: a timestamp is   *)
(* modelled by the event that sets it, a threading.Timer by an armed       *)
(* record that fires in a later step, a delivery thread by a pending       *)
(* record that is delivered in a later step.                               *)
(***************************************************************************)
EXTENDS Integers, Sequences, FiniteSets, TLC

\* ------------------------------------------------------------------ bounds
\* A proposer stops starting new rounds (prepare or accept re-send) at this
\* value of its rounds counter; the code itself never stops.
MaxRounds == 2

\* The same limit in the runs that follow one proposer through its retries.
MaxRetryRounds == 4

\* ------------------------------------------------------- program constants
max_retries == 3
MAX_RETRY_ATTEMPT == 3
MAX_PHASE_RETRIES == 3
\* the backoff of send_message and of _retry_message, in milliseconds
SEND_BACKOFF_BASE == 500
SEND_BACKOFF_CAP == 5000
RETRY_BACKOFF_BASE == 100
RETRY_BACKOFF_CAP == 1000

\* --------------------------------------------------------------- universe
Proposers == {"P0", "P1"}
Acceptors == {"A0", "A1", "A2", "A3", "A4"}
Learners == {"L0", "L1"}
AllNodes == Proposers \cup Acceptors \cup Learners

None == "None"
NoneID == <<0, "">>
NonePair == <<NoneID, None>>

\* ProposalID(number, uid): a pair compared by number, then by uid.
ProposalID(number, uid) == <<number, uid>>

UidRank(uid) ==
    CASE uid = "" -> 0
      [] uid = "P0" -> 1
      [] uid = "P1" -> 2

\* a < b on proposal ids; the null id is below every real one.
IdLess(a, b) == a[1] < b[1] \/ (a[1] = b[1] /\ UidRank(a[2]) < UidRank(b[2]))
IdLeq(a, b) == a = b \/ IdLess(a, b)

NetworkMessage(msg_type, sender, receiver, proposal_id, previous_id, accepted_value) ==
    [msg_type |-> msg_type, sender |-> sender, receiver |-> receiver,
     proposal_id |-> proposal_id, previous_id |-> previous_id,
     accepted_value |-> accepted_value]

VARIABLES
    nodes,              \* NetworkSimulator.nodes: the registered node ids
    quorum_size,        \* num_acceptors // 2 + 1, given to proposers and learners
    failure_rate,       \* NetworkSimulator.failure_rate, in percent
    delay_range,        \* "zero" for (0.0, 0.0), "fixed" for (d, d) with d > 0,
                        \* "positive" for (d1, d2) with d1 < d2
    long_draws,         \* the msg_ids whose random.uniform(*delay_range) is long
    late_draws,         \* the msg_ids whose delay outlasts the run
    net_running,        \* NetworkSimulator.running
    message_count,      \* NetworkSimulator.message_count
    dropped_messages,   \* NetworkSimulator.dropped_messages
    total_retries,      \* NetworkSimulator.total_retries
    active_messages,    \* NetworkSimulator.active_messages
    threads,            \* delivery threads started and not yet run
    fifo,               \* under a fixed delay, their msg_ids in the order started
    retry_timers,       \* threading.Timer(_retry_message) armed and not yet fired
    running,            \* PaxosNode.running, per node
    message_queue,      \* message_queue of each proposer and acceptor
    loop_pc,            \* where the _process_messages thread of each of them is
    proposer,           \* PaxosProposer fields, per proposer
    phase_timers,       \* threading.Timer(_check_*_timeout) armed and not yet fired
    acceptor,           \* Acceptor fields, per acceptor
    learner,            \* PaxosLearner / Learner fields, per learner
    sent,               \* history: every message handed to send_message
    driver,             \* the driver: its position, crash schedule and result
    in_progress         \* the calls a thread has entered and not left

vars == <<nodes, quorum_size, failure_rate, delay_range, long_draws, late_draws,
          net_running, message_count,
          dropped_messages, total_retries, active_messages, threads, fifo,
          retry_timers, running, message_queue, loop_pc, proposer, phase_timers,
          acceptor, learner, sent, driver, in_progress>>

config_vars ==
    <<nodes, quorum_size, failure_rate, delay_range, long_draws, late_draws>>
net_vars == <<net_running, message_count, dropped_messages, total_retries,
              active_messages, threads, fifo, retry_timers>>

\* ------------------------------------------------------------- functions
\* dict with key k set to v / with key k deleted
Put(f, k, v) == [x \in DOMAIN f \cup {k} |-> IF x = k THEN v ELSE f[x]]
Del(f, k) == [x \in DOMAIN f \ {k} |-> f[x]]
EmptyDict == [x \in {} |-> 0]

RegisteredAcceptors == nodes \cap Acceptors
RegisteredProposers == nodes \cap Proposers
RegisteredLearners == nodes \cap Learners

\* ---------------------------------------------------------------- network
\* msg_id = f"{sender}-{receiver}-{msg_type}-{proposal_id}-{retry_count}"
MsgId(msg, retry_count) ==
    <<msg.sender, msg.receiver, msg.msg_type, msg.proposal_id, retry_count>>

Min(a, b) == IF a < b THEN a ELSE b

\* delay = min(0.5 * (2 ** retry_count), 5.0) of send_message
SendBackoff(retry_count) ==
    Min(SEND_BACKOFF_BASE * 2^retry_count, SEND_BACKOFF_CAP)

\* delay = min(0.1 * (2 ** attempt), 1.0) of _retry_message
RetryBackoff(attempt) ==
    Min(RETRY_BACKOFF_BASE * 2^attempt, RETRY_BACKOFF_CAP)

\* random.random() < failure_rate, with the draw below the rate iff `drop`
RandomBelowRate(drop) == failure_rate >= 100 \/ (failure_rate > 0 /\ drop)

\* A batch of sends: the calls send_message(m) of one loop of a node, over
\* messages of one sender and type to distinct receivers (distinct msg_ids),
\* those of D drawing a value below failure_rate.
\* the messages that pass, as it would be without the running check
RegisteredAlways(msgs) ==
    {m \in msgs : MsgId(m, 0) \notin active_messages}

\* the messages that pass, as it would be without the active_messages check
RegisteredUnchecked(msgs) == IF net_running THEN msgs ELSE {}

\* the messages that pass the running check and the active_messages check
Registered(msgs) ==
    IF net_running THEN {m \in msgs : MsgId(m, 0) \notin active_messages} ELSE {}

\* those of them that are dropped
Dropped(msgs, D) ==
    {m \in Registered(msgs) : failure_rate > 0 /\ RandomBelowRate(m \in D)}

\* those of the dropped for which a retry timer is started, as it would be
\* without the test of failure_rate >= 1.0
RetriedAlways(msgs, D) ==
    IF 0 < max_retries THEN Dropped(msgs, D) ELSE {}

\* those of the dropped for which a retry timer is started
Retried(msgs, D) ==
    IF failure_rate < 100 /\ 0 < max_retries THEN Dropped(msgs, D) ELSE {}

\* those for which a delivery thread is started
Started(msgs, D) == Registered(msgs) \ Dropped(msgs, D)

\* the position of a node in network.nodes: proposers, acceptors and learners
\* are registered in this order
NodeRank(n) ==
    CASE n = "P0" -> 0 [] n = "P1" -> 1
      [] n = "A0" -> 2 [] n = "A1" -> 3 [] n = "A2" -> 4 [] n = "A3" -> 5
      [] n = "A4" -> 6 [] n = "L0" -> 7 [] n = "L1" -> 8

\* the place of a send in a batch: the senders in the order of their loop,
\* and for one sender the receivers in the order of network.nodes
LoopRank(m) == NodeRank(m.sender) * Cardinality(AllNodes) + NodeRank(m.receiver)

\* delivery threads run in the order started: under a fixed delay, and in the
\* runs where the driver's schedule says so
InOrder == delay_range = "fixed" \/ driver.in_order

\* the msg_ids of a batch, in the order of the loop over the receivers
InLoopOrder(msgs) ==
    [i \in 1..Cardinality(msgs) |->
        MsgId(CHOOSE m \in msgs :
                  Cardinality({y \in msgs : LoopRank(y) < LoopRank(m)}) = i - 1, 0)]

\* the outcomes of the random draws of a batch of sends
DropChoices(msgs) ==
    IF failure_rate = 0 THEN {{}}
    ELSE IF failure_rate >= 100 THEN {msgs}
    ELSE SUBSET msgs

\* the network variables after the batch of sends msgs with draws D
NetSend(msgs, D) ==
    /\ message_count' = message_count + Cardinality(Registered(msgs))
    /\ dropped_messages' = dropped_messages + Cardinality(Dropped(msgs, D))
    /\ active_messages' = active_messages
                            \cup {MsgId(m, 0) : m \in Started(msgs, D)}
                            \cup {MsgId(m, 0) : m \in Retried(msgs, D)}
    /\ threads' = threads \cup Started(msgs, D)
    /\ fifo' = IF InOrder
               THEN fifo \o InLoopOrder(Started(msgs, D))
               ELSE fifo
    /\ retry_timers' = retry_timers \cup
           {[msg_id |-> MsgId(m, 0), message |-> m, attempt |-> 1,
             delay |-> SendBackoff(0)] :
                m \in Retried(msgs, D)}
    /\ sent' = sent \cup msgs
    /\ UNCHANGED <<net_running, total_retries>>


\* --------------------------------------------------------------- proposer
\* what a proposer method leaves behind: the proposer's fields, the messages
\* it handed to send_message and the phase timers it started
Eff(p, out, arm) == [p |-> p, out |-> out, arm |-> arm]

InitProposer ==
    [rounds |-> 0, current_phase |-> None, quorum_reached |-> FALSE,
     next_proposal_number |-> 1, proposal_id |-> NoneID, promises_rcvd |-> {},
     last_accepted_id |-> NoneID, proposed_value |-> None, proposal_value |-> None,
     pending_promises |-> EmptyDict, pending_accepts |-> EmptyDict,
     processed_messages |-> {}, consensus_time |-> None,
     \* history: the ids prepare() has set, in order; the (id, value) of the
     \* pending_accepts entry on which consensus_time was set; the
     \* (msg_type, proposal_id, sender) of every message that raised a count,
     \* those that raised one twice, and the msg_ids skipped as duplicates;
     \* what handle_promise had in hand each time it declared the quorum
     ids_used |-> <<>>, decision |-> NonePair,
     counted |-> {}, recounted |-> {}, ignored |-> {}, quorums |-> {}]

\* the history of counted messages after one more count
Count(pr, msg) ==
    LET key == <<msg.msg_type, msg.proposal_id, msg.sender>>
    IN [pr EXCEPT !.counted = @ \cup {key},
                  !.recounted = IF key \in pr.counted THEN @ \cup {key} ELSE @]

PendingEntry(value) == [count |-> 0, received |-> {}, value |-> value, retry_count |-> 0]

set_proposal(pr, value) == [pr EXCEPT !.proposal_value = value]

\* prepare() as it would be if a retry kept the proposal number in use
prepare_same(pr, uid) ==
    IF ~running[uid] THEN Eff(pr, {}, {})
    ELSE LET number == IF pr.proposal_id = NoneID
                       THEN pr.next_proposal_number + 1
                       ELSE pr.proposal_id[1]
             id == ProposalID(number, uid)
         IN Eff([pr EXCEPT !.rounds = @ + 1,
                           !.current_phase = "prepare",
                           !.quorum_reached = FALSE,
                           !.next_proposal_number = number,
                           !.proposal_id = id,
                           !.promises_rcvd = {},
                           !.last_accepted_id = NoneID,
                           !.pending_promises = Put(@, id, PendingEntry(NonePair)),
                           !.ids_used = Append(@, id)],
                {NetworkMessage("prepare", uid, a, id, NoneID, None) :
                     a \in RegisteredAcceptors},
                {<<uid, "promise", id>>})

prepare(pr, uid) ==
    IF ~running[uid] THEN Eff(pr, {}, {})
    ELSE LET number == pr.next_proposal_number + 1
             id == ProposalID(number, uid)
         IN Eff([pr EXCEPT !.rounds = @ + 1,
                           !.current_phase = "prepare",
                           !.quorum_reached = FALSE,
                           !.next_proposal_number = number,
                           !.proposal_id = id,
                           !.promises_rcvd = {},
                           !.last_accepted_id = NoneID,
                           !.pending_promises = Put(@, id, PendingEntry(NonePair)),
                           !.ids_used = Append(@, id)],
                {NetworkMessage("prepare", uid, a, id, NoneID, None) :
                     a \in RegisteredAcceptors},
                {<<uid, "promise", id>>})

\* send_accept as it would be without the test of quorum_reached
send_accept_unchecked(pr, uid, proposal_id, proposal_value) ==
    IF ~running[uid] THEN Eff(pr, {}, {})
    ELSE Eff([pr EXCEPT !.current_phase = "accept",
                        !.pending_accepts =
                            Put(@, proposal_id, PendingEntry(proposal_value))],
             {NetworkMessage("accept", uid, a, proposal_id, NoneID, proposal_value) :
                  a \in RegisteredAcceptors},
             {<<uid, "accept", proposal_id>>})

send_accept(pr, uid, proposal_id, proposal_value) ==
    IF ~running[uid] THEN Eff(pr, {}, {})
    ELSE IF ~pr.quorum_reached THEN Eff(pr, {}, {})
    ELSE Eff([pr EXCEPT !.current_phase = "accept",
                        !.pending_accepts =
                            Put(@, proposal_id, PendingEntry(proposal_value))],
             {NetworkMessage("accept", uid, a, proposal_id, NoneID, proposal_value) :
                  a \in RegisteredAcceptors},
             {<<uid, "accept", proposal_id>>})

check_promise_timeout(pr, uid, proposal_id) ==
    IF proposal_id \notin DOMAIN pr.pending_promises THEN Eff(pr, {}, {})
    ELSE LET promises == pr.pending_promises[proposal_id]
             pr1 == [pr EXCEPT !.pending_promises[proposal_id].retry_count = @ + 1]
         IN IF promises.count < quorum_size
            THEN IF promises.retry_count + 1 < MAX_PHASE_RETRIES
                 THEN prepare([pr1 EXCEPT !.next_proposal_number = @ + 1,
                                          !.current_phase = None], uid)
                 ELSE Eff([pr1 EXCEPT !.pending_promises = Del(@, proposal_id),
                                      !.current_phase = None], {}, {})
            ELSE Eff(pr, {}, {})

\* _check_accept_timeout as it would be if the retry sent the proposer's own
\* value
check_accept_timeout_own(pr, uid, proposal_id) ==
    IF proposal_id \notin DOMAIN pr.pending_accepts THEN Eff(pr, {}, {})
    ELSE LET accepts == pr.pending_accepts[proposal_id]
             pr1 == [pr EXCEPT !.pending_accepts[proposal_id].retry_count = @ + 1]
         IN IF accepts.count < quorum_size
            THEN IF accepts.retry_count + 1 < MAX_PHASE_RETRIES
                 THEN send_accept([pr1 EXCEPT !.rounds = @ + 1], uid,
                                  proposal_id, pr.proposal_value)
                 ELSE prepare([pr1 EXCEPT !.current_phase = None,
                                          !.next_proposal_number = @ + 1], uid)
            ELSE Eff(pr, {}, {})

check_accept_timeout(pr, uid, proposal_id) ==
    IF proposal_id \notin DOMAIN pr.pending_accepts THEN Eff(pr, {}, {})
    ELSE LET accepts == pr.pending_accepts[proposal_id]
             pr1 == [pr EXCEPT !.pending_accepts[proposal_id].retry_count = @ + 1]
         IN IF accepts.count < quorum_size
            THEN IF accepts.retry_count + 1 < MAX_PHASE_RETRIES
                 THEN send_accept([pr1 EXCEPT !.rounds = @ + 1], uid,
                                  proposal_id, accepts.value)
                 ELSE prepare([pr1 EXCEPT !.current_phase = None,
                                          !.next_proposal_number = @ + 1], uid)
            ELSE Eff(pr, {}, {})

\* the value of the accept request as it would be if the base class field
\* proposed_value were read in place of proposal_value
accept_value_base(pr, promises) ==
    IF promises.value # NonePair THEN promises.value[2] ELSE pr.proposed_value

\* the value of the accept request as it would be if the proposer always sent
\* its own
accept_value_own(pr, promises) == pr.proposal_value

\* the value of the accept request: the highest accepted value reported in the
\* promises of the entry if any, otherwise the proposer's own
accept_value(pr, promises) ==
    IF promises.value # NonePair THEN promises.value[2] ELSE pr.proposal_value

handle_promise(pr, uid, msg) ==
    IF msg.proposal_id \in DOMAIN pr.pending_promises /\ pr.current_phase = "prepare"
    THEN LET promises == pr.pending_promises[msg.proposal_id]
         IN IF msg.sender \in promises.received THEN Eff(pr, {}, {})
            ELSE LET higher == msg.accepted_value # None
                               /\ (promises.value = NonePair
                                   \/ IdLess(promises.value[1], msg.previous_id))
                     promises1 ==
                         [promises EXCEPT
                             !.count = @ + 1,
                             !.received = @ \cup {msg.sender},
                             !.value = IF higher
                                       THEN <<msg.previous_id, msg.accepted_value>>
                                       ELSE @]
                     newer == msg.previous_id # NoneID
                              /\ (pr.last_accepted_id = NoneID
                                  \/ IdLess(pr.last_accepted_id, msg.previous_id))
                     pr1 == [Count(pr, msg) EXCEPT
                                !.pending_promises[msg.proposal_id] = promises1,
                                !.last_accepted_id =
                                    IF newer THEN msg.previous_id ELSE @,
                                !.proposed_value =
                                    IF newer /\ msg.accepted_value # None
                                    THEN msg.accepted_value ELSE @,
                                !.promises_rcvd = @ \cup {msg.sender}]
                 IN IF Cardinality(pr1.promises_rcvd) >= quorum_size
                       /\ ~pr1.quorum_reached
                    THEN LET value == accept_value(pr1, promises1)
                             quorum == [id |-> msg.proposal_id, value |-> value,
                                        current |-> pr1.proposal_id,
                                        own |-> pr1.proposal_value,
                                        from |-> pr1.promises_rcvd]
                             e == send_accept([pr1 EXCEPT !.quorum_reached = TRUE,
                                                          !.quorums = @ \cup {quorum}],
                                              uid, msg.proposal_id, value)
                         IN Eff([e.p EXCEPT !.pending_promises =
                                                Del(@, msg.proposal_id)],
                                e.out, e.arm)
                    ELSE Eff(pr1, {}, {})
    ELSE Eff(pr, {}, {})

\* handle_accepted as it would be if the first accepted message for a pending
\* accept counted as the quorum
handle_accepted_early(pr, uid, msg) ==
    IF msg.proposal_id \in DOMAIN pr.pending_accepts /\ pr.current_phase = "accept"
    THEN LET accepts == pr.pending_accepts[msg.proposal_id]
         IN IF msg.sender \in accepts.received THEN Eff(pr, {}, {})
            ELSE Eff([Count(pr, msg) EXCEPT
                         !.consensus_time = IF @ = None THEN "set" ELSE @,
                         !.decision = IF pr.consensus_time = None
                                      THEN <<msg.proposal_id, accepts.value>>
                                      ELSE @,
                         !.pending_accepts = Del(@, msg.proposal_id),
                         !.current_phase = None], {}, {})
    ELSE Eff(pr, {}, {})

handle_accepted(pr, uid, msg) ==
    IF msg.proposal_id \in DOMAIN pr.pending_accepts /\ pr.current_phase = "accept"
    THEN LET accepts == pr.pending_accepts[msg.proposal_id]
         IN IF msg.sender \in accepts.received THEN Eff(pr, {}, {})
            ELSE IF accepts.count + 1 >= quorum_size
            THEN Eff([Count(pr, msg) EXCEPT
                         !.consensus_time = IF @ = None THEN "set" ELSE @,
                         !.decision = IF pr.consensus_time = None
                                      THEN <<msg.proposal_id, accepts.value>>
                                      ELSE @,
                         !.pending_accepts = Del(@, msg.proposal_id),
                         !.current_phase = None], {}, {})
            ELSE Eff([Count(pr, msg) EXCEPT
                         !.pending_accepts[msg.proposal_id].count = @ + 1,
                         !.pending_accepts[msg.proposal_id].received =
                             @ \cup {msg.sender}], {}, {})
    ELSE Eff(pr, {}, {})

\* one turn of the loop as it would be without the processed_messages check
proposer_process_all(pr, uid, msg) ==
    LET msg_id == <<msg.sender, msg.msg_type, msg.proposal_id>>
        pr1 == [pr EXCEPT !.processed_messages = @ \cup {msg_id}]
    IN IF msg.msg_type = "promise" THEN handle_promise(pr1, uid, msg)
       ELSE IF msg.msg_type = "accepted" THEN handle_accepted(pr1, uid, msg)
       ELSE Eff(pr1, {}, {})

\* one turn of PaxosProposer._process_messages on the dequeued msg
proposer_process(pr, uid, msg) ==
    LET msg_id == <<msg.sender, msg.msg_type, msg.proposal_id>>
        pr1 == [pr EXCEPT !.processed_messages = @ \cup {msg_id}]
    IN IF msg_id \in pr.processed_messages
       THEN Eff([pr EXCEPT !.ignored = @ \cup {msg_id}], {}, {})
       ELSE IF msg.msg_type = "promise" THEN handle_promise(pr1, uid, msg)
       ELSE IF msg.msg_type = "accepted" THEN handle_accepted(pr1, uid, msg)
       ELSE Eff(pr1, {}, {})

\* --------------------------------------------------------------- acceptor
InitAcceptor == [promised_id |-> NoneID, accepted_id |-> NoneID, accepted_value |-> None]

\* PaxosAcceptor.send_promise
send_promise(uid, to_uid, proposal_id, previous_id, accepted_value) ==
    IF ~running[uid] THEN {}
    ELSE {NetworkMessage("promise", uid, to_uid, proposal_id, previous_id,
                         accepted_value)}

\* send_accepted as it would be if it addressed the learners only
send_accepted_learners(uid, proposal_id, accepted_value) ==
    {NetworkMessage("accepted", uid, n, proposal_id, NoneID, accepted_value) :
         n \in RegisteredLearners}

\* PaxosAcceptor.send_accepted
send_accepted(uid, proposal_id, accepted_value) ==
    {NetworkMessage("accepted", uid, n, proposal_id, NoneID, accepted_value) :
         n \in RegisteredLearners \cup RegisteredProposers}

\* Acceptor.recv_prepare: the acceptor's fields and the messages it sends
recv_prepare(acc, uid, from_uid, proposal_id) ==
    IF proposal_id = acc.promised_id
    THEN [a |-> acc,
          out |-> send_promise(uid, from_uid, proposal_id, acc.accepted_id,
                               acc.accepted_value)]
    ELSE IF IdLess(acc.promised_id, proposal_id)
    THEN [a |-> [acc EXCEPT !.promised_id = proposal_id],
          out |-> send_promise(uid, from_uid, proposal_id, acc.accepted_id,
                               acc.accepted_value)]
    ELSE [a |-> acc, out |-> {}]

\* Acceptor.recv_accept_request, reached through PaxosAcceptor.recv_accept_request
recv_accept_request(acc, uid, from_uid, proposal_id, value) ==
    IF IdLeq(acc.promised_id, proposal_id)
    THEN [a |-> [promised_id |-> proposal_id, accepted_id |-> proposal_id,
                 accepted_value |-> value],
          out |-> send_accepted(uid, proposal_id, value)]
    ELSE [a |-> acc, out |-> {}]

\* one turn of the loop as it would be if an accept were stored without going
\* through recv_accept_request
acceptor_process_assign(acc, uid, msg) ==
    IF msg.msg_type = "prepare"
    THEN recv_prepare(acc, uid, msg.sender, msg.proposal_id)
    ELSE IF msg.msg_type = "accept"
    THEN [a |-> [promised_id |-> msg.proposal_id, accepted_id |-> msg.proposal_id,
                 accepted_value |-> msg.accepted_value],
          out |-> send_accepted(uid, msg.proposal_id, msg.accepted_value)]
    ELSE [a |-> acc, out |-> {}]

\* one turn of the loop as it would be if it skipped a message carrying the id
\* the acceptor already holds, the way the proposer's loop skips duplicates
acceptor_process_once(acc, uid, msg) ==
    IF msg.msg_type = "prepare" /\ msg.proposal_id # acc.promised_id
    THEN recv_prepare(acc, uid, msg.sender, msg.proposal_id)
    ELSE IF msg.msg_type = "accept" /\ msg.proposal_id # acc.accepted_id
    THEN recv_accept_request(acc, uid, msg.sender, msg.proposal_id, msg.accepted_value)
    ELSE [a |-> acc, out |-> {}]

\* one turn of the loop as it would be if every prepare were answered with a
\* promise, whatever its id
acceptor_process_answer(acc, uid, msg) ==
    IF msg.msg_type = "prepare"
    THEN [a |-> recv_prepare(acc, uid, msg.sender, msg.proposal_id).a,
          out |-> send_promise(uid, msg.sender, msg.proposal_id, acc.accepted_id,
                               acc.accepted_value)]
    ELSE IF msg.msg_type = "accept"
    THEN recv_accept_request(acc, uid, msg.sender, msg.proposal_id, msg.accepted_value)
    ELSE [a |-> acc, out |-> {}]

\* one turn of PaxosAcceptor._process_messages on the dequeued msg
\* one turn of the loop as it would be if every message that is not a prepare
\* were taken for an accept request
acceptor_process_default(acc, uid, msg) ==
    IF msg.msg_type = "prepare"
    THEN recv_prepare(acc, uid, msg.sender, msg.proposal_id)
    ELSE recv_accept_request(acc, uid, msg.sender, msg.proposal_id, msg.accepted_value)

acceptor_process(acc, uid, msg) ==
    IF msg.msg_type = "prepare"
    THEN recv_prepare(acc, uid, msg.sender, msg.proposal_id)
    ELSE IF msg.msg_type = "accept"
    THEN recv_accept_request(acc, uid, msg.sender, msg.proposal_id, msg.accepted_value)
    ELSE [a |-> acc, out |-> {}]

\* ---------------------------------------------------------------- learner
InitLearner ==
    [pending_accepted |-> EmptyDict,   \* PaxosLearner.pending_accepted
     proposals |-> EmptyDict,          \* Learner: proposal id -> tally
     final_value |-> None, final_proposal_id |-> NoneID,
     \* history: the (proposal id, value) of every on_resolution call
     resolutions |-> {}]

on_resolution(lr, proposal_id, value) ==
    [lr EXCEPT !.resolutions = @ \cup {<<proposal_id, value>>}]

\* Learner.recv_accepted
recv_accepted(lr, from_uid, proposal_id, accepted_value) ==
    IF lr.final_value # None THEN lr
    ELSE LET old == IF proposal_id \in DOMAIN lr.proposals
                    THEN lr.proposals[proposal_id]
                    ELSE [acceptors_seen |-> {}, value |-> accepted_value]
             tally == IF from_uid \in old.acceptors_seen THEN old
                      ELSE [old EXCEPT !.acceptors_seen = @ \cup {from_uid}]
             lr1 == [lr EXCEPT !.proposals = Put(@, proposal_id, tally)]
         IN IF Cardinality(tally.acceptors_seen) >= quorum_size
            THEN on_resolution([lr1 EXCEPT !.final_value = tally.value,
                                           !.final_proposal_id = proposal_id],
                               proposal_id, tally.value)
            ELSE lr1

\* handle_message as it would be if the learner recorded the value itself when
\* its own count reaches the quorum
learner_handle_message_final(lr, msg) ==
    IF msg.msg_type = "accepted"
    THEN LET entry == IF msg.proposal_id \in DOMAIN lr.pending_accepted
                      THEN lr.pending_accepted[msg.proposal_id]
                      ELSE [count |-> 0, value |-> msg.accepted_value, received |-> {}]
             entry1 == [entry EXCEPT !.count = @ + 1,
                                     !.received = @ \cup {msg.sender}]
             lr1 == recv_accepted(
                        [lr EXCEPT !.pending_accepted = Put(@, msg.proposal_id, entry1)],
                        msg.sender, msg.proposal_id, msg.accepted_value)
         IN IF entry1.count >= quorum_size
            THEN [on_resolution(lr1, msg.proposal_id, msg.accepted_value)
                     EXCEPT !.pending_accepted = Del(@, msg.proposal_id),
                            !.final_value = msg.accepted_value,
                            !.final_proposal_id = msg.proposal_id]
            ELSE lr1
    ELSE lr

\* PaxosLearner.handle_message
learner_handle_message(lr, msg) ==
    IF msg.msg_type = "accepted"
    THEN LET entry == IF msg.proposal_id \in DOMAIN lr.pending_accepted
                      THEN lr.pending_accepted[msg.proposal_id]
                      ELSE [count |-> 0, value |-> msg.accepted_value, received |-> {}]
             entry1 == [entry EXCEPT !.count = @ + 1,
                                     !.received = @ \cup {msg.sender}]
             lr1 == recv_accepted(
                        [lr EXCEPT !.pending_accepted = Put(@, msg.proposal_id, entry1)],
                        msg.sender, msg.proposal_id, msg.accepted_value)
         IN IF entry1.count >= quorum_size
            THEN [on_resolution(lr1, msg.proposal_id, msg.accepted_value)
                     EXCEPT !.pending_accepted = Del(@, msg.proposal_id)]
            ELSE lr1
    ELSE lr


\* ----------------------------------------------------------------- driver
\* the value the driver gives to proposer p through set_proposal
InitialValue(p) == IF p = "P0" THEN "A" ELSE "B"

\* the quorum as it would be without the + 1, and as it would be if every
\* acceptor were required
QuorumSizeHalf(num_acceptors) == num_acceptors \div 2
QuorumSizeAll(num_acceptors) == num_acceptors

\* num_acceptors // 2 + 1
QuorumSize(num_acceptors) == (num_acceptors \div 2) + 1

\* the network and the nodes after the driver has constructed and started
\* them: ns registered, rate / delay the network's parameters
NodesConstructed(ns, rate, delay, longs, lates) ==
    /\ nodes = ns
    /\ long_draws = longs
    /\ late_draws = lates
    /\ quorum_size = QuorumSize(Cardinality(ns \cap Acceptors))
    /\ failure_rate = rate
    /\ delay_range = delay
    /\ net_running = TRUE
    /\ message_count = 0
    /\ dropped_messages = 0
    /\ total_retries = 0
    /\ active_messages = {}
    /\ threads = {}
    /\ fifo = <<>>
    /\ retry_timers = {}
    /\ running = [n \in ns |-> TRUE]
    /\ message_queue = [n \in ns \ Learners |-> <<>>]
    /\ loop_pc = [n \in ns \ Learners |-> "while"]
    /\ proposer = [p \in ns \cap Proposers |-> InitProposer]
    /\ phase_timers = {}
    /\ acceptor = [a \in ns \cap Acceptors |-> InitAcceptor]
    /\ learner = [l \in ns \cap Learners |-> InitLearner]
    /\ sent = {}
    /\ in_progress = {}

\* the state after construction with the driver about to run: starts the
\* proposers it will start, crashes the nodes it will crash, cap the rounds a
\* proposer goes through before the run is over
ConstructedFor(ns, rate, delay, longs, lates, starts, crashes, paced, cap) ==
    /\ NodesConstructed(ns, rate, delay, longs, lates)
    /\ driver = [pc |-> "init", to_propose |-> starts, crash_schedule |-> crashes,
                 paced |-> paced, in_order |-> FALSE, consensus_before |-> FALSE,
                 round_cap |-> cap]

\* the same with the phase timers of the run limited to MaxRounds rounds
Constructed(ns, rate, delay, longs, lates, starts, crashes, paced) ==
    ConstructedFor(ns, rate, delay, longs, lates, starts, crashes, paced, MaxRounds)

\* Time scales.  A fixed delay is short and delivers the messages in the order
\* sent.  Otherwise the delay drawn for a message is either short (0.0, or far
\* below the 0.5 s sleeps of a paced driver and the 4 s phase timeout) or long
\* (anything up to the upper end of delay_range, which may exceed the phase
\* timeout) or so long that the run ends before the sleep of _delayed_delivery
\* does; long_draws and late_draws fix which draws of the run are which.
Long(m) == MsgId(m, 0) \in long_draws
Late(m) == MsgId(m, 0) \in late_draws

\* some running node has a message waiting in its queue
NodeBusy ==
    \E n \in DOMAIN message_queue : running[n] /\ message_queue[n] # <<>>

\* no short-delay message is on its way, no network retry is pending, no
\* running node has a message waiting and no thread is inside a call
Quiet ==
    /\ \A m \in threads : Long(m) \/ Late(m)
    /\ retry_timers = {}
    /\ ~NodeBusy
    /\ in_progress = {}

\* A 4 s phase timer, the 30 s global timeout and a long-delay delivery come
\* only after the short-delay messages on their way have been handled.
TimerMayExpire == Quiet

\* With a delay above zero, and in the runs whose threads run in the order
\* started, a delivery comes after the processing loops (queue.get) have taken
\* the messages already queued.
Prompt == (delay_range # "zero" \/ driver.in_order) => ~NodeBusy

\* A paced driver (time.sleep between its steps) acts on a quiet system.
DriverMayAct == driver.paced => Quiet

\* proposers[i].set_proposal(v); proposers[i].prepare()
Propose(p) ==
    /\ DriverMayAct
    /\ driver.pc # "stopped"
    /\ p \in driver.to_propose
    /\ LET e == prepare(set_proposal(proposer[p], InitialValue(p)), p)
       IN /\ proposer' = [proposer EXCEPT ![p] = e.p]
          /\ phase_timers' = phase_timers \cup e.arm
          /\ \E D \in DropChoices(e.out) : NetSend(e.out, D)
    /\ driver' = [driver EXCEPT !.pc = "waiting", !.to_propose = @ \ {p}]
    /\ UNCHANGED <<config_vars, in_progress, loop_pc, running, message_queue, acceptor, learner>>

\* node.running = False
Crash(n) ==
    /\ DriverMayAct
    /\ driver.pc # "stopped"
    /\ n \in driver.crash_schedule
    /\ running' = [running EXCEPT ![n] = FALSE]
    /\ driver' = [driver EXCEPT !.crash_schedule = @ \ {n}]
    /\ UNCHANGED <<config_vars, in_progress, loop_pc, net_vars, message_queue, proposer, phase_timers,
                   acceptor, learner, sent>>

\* the end of simulate_paxos: the wait loop is left on consensus or on the
\* global timeout, the result is read and network.stop() is called
Stop ==
    /\ driver.pc = "waiting"
    /\ driver.to_propose = {}
    /\ proposer["P0"].consensus_time # None \/ TimerMayExpire
    /\ driver' = [driver EXCEPT !.pc = "stopped",
                                !.consensus_before =
                                    proposer["P0"].consensus_time # None]
    /\ net_running' = FALSE
    /\ active_messages' = {}
    /\ UNCHANGED <<config_vars, in_progress, loop_pc, message_count, dropped_messages, total_retries,
                   threads, fifo, retry_timers, running, message_queue, proposer,
                   phase_timers, acceptor, learner, sent>>

\* ------------------------------------------------------ scripted driver
\* headless_run: the driver takes each proposer in turn through the phases,
\* sleeping between them, and besides the proposer's own calls it calls the
\* acceptors' recv_prepare and recv_accept_request and the proposer's
\* send_accept itself.
\* for a in acceptors: if a.running: a.recv_prepare / a.recv_accept_request
\* the acceptors' fields after the loop, and the messages handed to the network
\* (call[a] is what the call does on acceptor a)
ScriptedCalls(call) ==
    LET r == [a \in DOMAIN acceptor |->
                 IF running[a] THEN call[a]
                 ELSE [a |-> acceptor[a], out |-> {}]]
    IN [acc |-> [a \in DOMAIN acceptor |-> r[a].a],
        out |-> UNION {r[a].out : a \in DOMAIN acceptor}]

\* the values a quorum of acceptors has accepted under one proposal id
ChosenValues ==
    {m.accepted_value : m \in {x \in sent :
        /\ x.msg_type = "accepted"
        /\ Cardinality({y.sender : y \in {z \in sent :
                            /\ z.msg_type = "accepted"
                            /\ z.proposal_id = x.proposal_id}}) >= quorum_size}}

\* Phase 1a: proposers[i].set_proposal(v); proposers[i].prepare()
ScriptPrepare ==
    /\ driver.pc = "1a"
    /\ Quiet
    /\ LET p == driver.leader
           e == prepare(set_proposal(proposer[p], InitialValue(p)), p)
       IN /\ proposer' = [proposer EXCEPT ![p] = e.p]
          /\ phase_timers' = phase_timers \cup e.arm
          /\ \E D \in DropChoices(e.out) : NetSend(e.out, D)
    /\ driver' = [driver EXCEPT !.pc = "1b",
                                !.chosen_before = IF driver.leader = "P1"
                                                  THEN ChosenValues ELSE @]
    /\ UNCHANGED <<config_vars, in_progress, loop_pc, running, message_queue, acceptor, learner>>

\* Phase 1b: a.recv_prepare(leader, proposers[i].proposal_id) on each
\* running acceptor
ScriptRecvPrepare ==
    /\ driver.pc = "1b"
    /\ Quiet
    /\ LET p == driver.leader
           r == ScriptedCalls([a \in DOMAIN acceptor |->
                                  recv_prepare(acceptor[a], a, p,
                                               proposer[p].proposal_id)])
       IN /\ acceptor' = r.acc
          /\ \E D \in DropChoices(r.out) : NetSend(r.out, D)
    /\ driver' = [driver EXCEPT !.pc = "2a"]
    /\ UNCHANGED <<config_vars, in_progress, loop_pc, running, message_queue, proposer, phase_timers,
                   learner>>

\* Phase 2a: proposers[i].send_accept(proposers[i].proposal_id, v)
ScriptSendAccept ==
    /\ driver.pc = "2a"
    /\ Quiet
    /\ LET p == driver.leader
           e == send_accept(proposer[p], p, proposer[p].proposal_id, InitialValue(p))
       IN /\ proposer' = [proposer EXCEPT ![p] = e.p]
          /\ phase_timers' = phase_timers \cup e.arm
          /\ \E D \in DropChoices(e.out) : NetSend(e.out, D)
    /\ driver' = [driver EXCEPT !.pc = "2b"]
    /\ UNCHANGED <<config_vars, in_progress, loop_pc, running, message_queue, acceptor, learner>>

\* Phase 2b: a.recv_accept_request(leader, proposers[i].proposal_id, v) on
\* each running acceptor
ScriptRecvAccept ==
    /\ driver.pc = "2b"
    /\ Quiet
    /\ LET p == driver.leader
           r == ScriptedCalls([a \in DOMAIN acceptor |->
                                  recv_accept_request(acceptor[a], a, p,
                                                      proposer[p].proposal_id,
                                                      InitialValue(p))])
       IN /\ acceptor' = r.acc
          /\ \E D \in DropChoices(r.out) : NetSend(r.out, D)
    /\ driver' = [driver EXCEPT !.pc = IF driver.leader = "P0" THEN "crash"
                                       ELSE "end"]
    /\ UNCHANGED <<config_vars, in_progress, loop_pc, running, message_queue, proposer, phase_timers,
                   learner>>

\* proposers[0].running = False, and acceptors[i].running = False for the
\* additional crashes; there is no sleep between Phase 2b and the crashes
ScriptCrash ==
    /\ driver.pc = "crash"
    /\ running' = [n \in DOMAIN running |->
                       IF n = "P0" \/ n \in driver.crash_schedule THEN FALSE
                       ELSE running[n]]
    /\ driver' = [driver EXCEPT !.pc = IF "P1" \in nodes THEN "1a" ELSE "end",
                                !.leader = "P1", !.crash_schedule = {}]
    /\ UNCHANGED <<config_vars, in_progress, loop_pc, net_vars, message_queue, proposer, phase_timers,
                   acceptor, learner, sent>>

\* network.stop() after the last sleep
ScriptStop ==
    /\ driver.pc = "end"
    /\ Quiet
    /\ driver' = [driver EXCEPT !.pc = "stopped"]
    /\ net_running' = FALSE
    /\ active_messages' = {}
    /\ UNCHANGED <<config_vars, in_progress, loop_pc, message_count, dropped_messages, total_retries,
                   threads, fifo, retry_timers, running, message_queue, proposer,
                   phase_timers, acceptor, learner, sent>>

\* ------------------------------------------------------- network actions
\* target_node.handle_message(msg) for a registered, running receiver
HandleMessage(m) ==
    IF m.receiver \in nodes /\ running[m.receiver]
    THEN IF m.receiver \in Learners
         THEN /\ learner' = [learner EXCEPT
                                ![m.receiver] = learner_handle_message(@, m)]
              /\ UNCHANGED message_queue
         ELSE /\ message_queue' = [message_queue EXCEPT ![m.receiver] = Append(@, m)]
              /\ UNCHANGED learner
    ELSE UNCHANGED <<message_queue, learner>>

\* NetworkSimulator._deliver_message (directly or after _delayed_delivery)
Deliver(m) ==
    /\ m \in threads
    /\ ~Late(m)
    /\ IF Long(m) THEN TimerMayExpire ELSE Prompt
    /\ IF InOrder
       THEN MsgId(m, 0) = Head(fifo) /\ fifo' = Tail(fifo)
       ELSE UNCHANGED fifo
    /\ threads' = threads \ {m}
    /\ HandleMessage(m)
    /\ active_messages' = active_messages \ {MsgId(m, 0)}
    /\ UNCHANGED <<config_vars, in_progress, loop_pc, net_running, message_count, dropped_messages,
                   total_retries, retry_timers, running, proposer, phase_timers,
                   acceptor, sent, driver>>

\* NetworkSimulator._retry_message, started by a retry timer
RetryMessage(t, drop) ==
    /\ Prompt
    /\ t \in retry_timers
    /\ IF ~net_running \/ t.attempt >= MAX_RETRY_ATTEMPT
       THEN /\ active_messages' = active_messages \ {t.msg_id}
            /\ retry_timers' = retry_timers \ {t}
            /\ UNCHANGED <<total_retries, dropped_messages, message_queue, learner>>
       ELSE IF t.msg_id \notin active_messages
       THEN /\ retry_timers' = retry_timers \ {t}
            /\ UNCHANGED <<active_messages, total_retries, dropped_messages,
                           message_queue, learner>>
       ELSE IF RandomBelowRate(drop)
       THEN /\ total_retries' = total_retries + 1
            /\ dropped_messages' = dropped_messages + 1
            /\ retry_timers' = (retry_timers \ {t})
                                  \cup {[t EXCEPT !.attempt = @ + 1,
                                                   !.delay = RetryBackoff(t.attempt)]}
            /\ UNCHANGED <<active_messages, message_queue, learner>>
       ELSE /\ HandleMessage(t.message)
            /\ active_messages' = active_messages \ {t.msg_id}
            /\ retry_timers' = retry_timers \ {t}
            /\ UNCHANGED <<total_retries, dropped_messages>>
    /\ UNCHANGED <<config_vars, in_progress, loop_pc, net_running, message_count, threads, fifo, running,
                   proposer, phase_timers, acceptor, sent, driver>>

\* ---------------------------------------------------------- node actions
\* PaxosProposer._process_messages: queue.get and the handling of the message
ProposerTake(p) ==
    /\ p \in DOMAIN proposer
    /\ message_queue[p] # <<>>
    /\ LET e == proposer_process(proposer[p], p, Head(message_queue[p]))
       IN /\ proposer' = [proposer EXCEPT ![p] = e.p]
          /\ phase_timers' = phase_timers \cup e.arm
          /\ \E D \in DropChoices(e.out) : NetSend(e.out, D)
    /\ message_queue' = [message_queue EXCEPT ![p] = Tail(@)]
    /\ UNCHANGED <<config_vars, in_progress, running, acceptor, learner, driver>>

\* one turn of the loop taken as a whole: the test of self.running, queue.get
\* and the handling
ProposerProcess(p) ==
    /\ p \in DOMAIN proposer
    /\ running[p]
    /\ ProposerTake(p)
    /\ UNCHANGED loop_pc

\* PaxosAcceptor._process_messages: queue.get and the handling of the message
AcceptorTake(a) ==
    /\ a \in DOMAIN acceptor
    /\ message_queue[a] # <<>>
    /\ LET e == acceptor_process(acceptor[a], a, Head(message_queue[a]))
       IN /\ acceptor' = [acceptor EXCEPT ![a] = e.a]
          /\ \E D \in DropChoices(e.out) : NetSend(e.out, D)
    /\ message_queue' = [message_queue EXCEPT ![a] = Tail(@)]
    /\ UNCHANGED <<config_vars, in_progress, running, proposer, phase_timers, learner, driver>>

\* one turn of the loop taken as a whole
AcceptorProcess(a) ==
    /\ a \in DOMAIN acceptor
    /\ running[a]
    /\ AcceptorTake(a)
    /\ UNCHANGED loop_pc

\* The same loops step by step.  while self.running: the test passes and the
\* thread goes on to queue.get(timeout=0.1)
LoopTest(n) ==
    /\ n \in DOMAIN loop_pc
    /\ loop_pc[n] = "while"
    /\ running[n]
    /\ loop_pc' = [loop_pc EXCEPT ![n] = "get"]
    /\ UNCHANGED <<config_vars, in_progress, net_vars, running, message_queue, proposer,
                   phase_timers, acceptor, learner, sent, driver>>

\* queue.get raises queue.Empty and the loop goes back to its test
LoopTimeout(n) ==
    /\ n \in DOMAIN loop_pc
    /\ loop_pc[n] = "get"
    /\ message_queue[n] = <<>>
    /\ loop_pc' = [loop_pc EXCEPT ![n] = "while"]
    /\ UNCHANGED <<config_vars, in_progress, net_vars, running, message_queue, proposer,
                   phase_timers, acceptor, learner, sent, driver>>

\* queue.get returns a message and the thread handles it
ProposerLoopBody(p) ==
    /\ p \in DOMAIN proposer
    /\ loop_pc[p] = "get"
    /\ ProposerTake(p)
    /\ loop_pc' = [loop_pc EXCEPT ![p] = "while"]

AcceptorLoopBody(a) ==
    /\ a \in DOMAIN acceptor
    /\ loop_pc[a] = "get"
    /\ AcceptorTake(a)
    /\ loop_pc' = [loop_pc EXCEPT ![a] = "while"]

\* a phase timer fires: _check_promise_timeout or _check_accept_timeout
PhaseTimeout(t) ==
    /\ t \in phase_timers
    /\ TimerMayExpire
    /\ LET p == t[1]
           e == IF t[2] = "promise"
                THEN check_promise_timeout(proposer[p], p, t[3])
                ELSE check_accept_timeout(proposer[p], p, t[3])
       IN /\ e.p.rounds > proposer[p].rounds => proposer[p].rounds < driver.round_cap
          /\ proposer' = [proposer EXCEPT ![p] = e.p]
          /\ phase_timers' = (phase_timers \ {t}) \cup e.arm
          /\ \E D \in DropChoices(e.out) : NetSend(e.out, D)
    /\ UNCHANGED <<config_vars, in_progress, loop_pc, running, message_queue, acceptor, learner, driver>>

\* Messages no node of the program sends: to a receiver that is not
\* registered, and of a kind the receiving role does not handle.
FaultMessages ==
    {NetworkMessage("accepted", "A0", "L1", <<2, "P0">>, NoneID, "A"),
     NetworkMessage("promise", "P0", "A0", <<2, "P0">>, NoneID, None),
     NetworkMessage("prepare", "A0", "P0", <<2, "P0">>, NoneID, None),
     NetworkMessage("prepare", "P0", "L0", <<2, "P0">>, NoneID, None)}

\* network.send_message(m) called with such a message while the run goes on
SendFault(m) ==
    /\ m \in FaultMessages \ sent
    /\ driver.pc # "stopped"
    /\ \E D \in DropChoices({m}) : NetSend({m}, D)
    /\ UNCHANGED <<config_vars, in_progress, loop_pc, running, message_queue, proposer,
                   phase_timers, acceptor, learner, driver>>

\* The same calls step by step.  A call a thread has entered and not left is
\* in in_progress as [call, node, msg]: send_message(msg) called by the loop
\* of node, past its test of self.running and not yet inside message_lock; or
\* handle_message(msg) of the learner node, called by the delivery thread of
\* msg.  The effect of handle_message on the learner's fields is taken where
\* the call ends.
Call(call, node, msg) == [call |-> call, node |-> node, msg |-> msg]

\* no thread of n is inside a call
Idle(n) == \A c \in in_progress : c.node # n

\* the send of a batch that comes last in the loop over network.nodes
LastSent(msgs) == CHOOSE m \in msgs : \A y \in msgs : LoopRank(y) <= LoopRank(m)

\* one turn of PaxosAcceptor._process_messages up to and including the test
\* of self.running in its last call of send_message
AcceptorSendEnter(a) ==
    /\ a \in DOMAIN acceptor
    /\ running[a]
    /\ Idle(a)
    /\ message_queue[a] # <<>>
    /\ net_running
    /\ LET e == acceptor_process(acceptor[a], a, Head(message_queue[a]))
       IN /\ e.out # {}
          /\ acceptor' = [acceptor EXCEPT ![a] = e.a]
          /\ \E D \in DropChoices(e.out \ {LastSent(e.out)}) :
                 NetSend(e.out \ {LastSent(e.out)}, D)
          /\ in_progress' = in_progress
                                \cup {Call("send_message", a, LastSent(e.out))}
    /\ message_queue' = [message_queue EXCEPT ![a] = Tail(@)]
    /\ UNCHANGED <<config_vars, loop_pc, running, proposer, phase_timers, learner,
                   driver>>

\* the rest of that call of send_message: the block under message_lock
SendLocked(c, drop) ==
    /\ c \in in_progress
    /\ c.call = "send_message"
    /\ IF MsgId(c.msg, 0) \in active_messages
       THEN UNCHANGED <<message_count, dropped_messages, active_messages, threads,
                        fifo, retry_timers>>
       ELSE /\ message_count' = message_count + 1
            /\ IF failure_rate > 0 /\ RandomBelowRate(drop)
               THEN /\ dropped_messages' = dropped_messages + 1
                    /\ IF failure_rate < 100 /\ 0 < max_retries
                       THEN /\ active_messages' =
                                   active_messages \cup {MsgId(c.msg, 0)}
                            /\ retry_timers' = retry_timers \cup
                                   {[msg_id |-> MsgId(c.msg, 0), message |-> c.msg,
                                     attempt |-> 1, delay |-> SendBackoff(0)]}
                       ELSE UNCHANGED <<active_messages, retry_timers>>
                    /\ UNCHANGED <<threads, fifo>>
               ELSE /\ active_messages' = active_messages \cup {MsgId(c.msg, 0)}
                    /\ threads' = threads \cup {c.msg}
                    /\ fifo' = IF InOrder THEN Append(fifo, MsgId(c.msg, 0)) ELSE fifo
                    /\ UNCHANGED <<dropped_messages, retry_timers>>
    /\ sent' = sent \cup {c.msg}
    /\ in_progress' = in_progress \ {c}
    /\ UNCHANGED <<config_vars, net_running, total_retries, running, message_queue,
                   loop_pc, proposer, phase_timers, acceptor, learner, driver>>

\* the delivery thread of m calls handle_message of a running learner
HandlerEnter(m) ==
    /\ m \in threads
    /\ ~Late(m)
    /\ IF Long(m) THEN TimerMayExpire ELSE Prompt
    /\ m.receiver \in nodes \cap Learners
    /\ running[m.receiver]
    /\ IF InOrder
       THEN MsgId(m, 0) = Head(fifo) /\ fifo' = Tail(fifo)
       ELSE UNCHANGED fifo
    /\ threads' = threads \ {m}
    /\ in_progress' = in_progress \cup {Call("handle_message", m.receiver, m)}
    /\ UNCHANGED <<config_vars, loop_pc, net_running, message_count, dropped_messages,
                   total_retries, active_messages, retry_timers, running,
                   message_queue, proposer, phase_timers, acceptor, learner, sent,
                   driver>>

\* that call returns, and the finally clause of _deliver_message removes the
\* token
HandlerLeave(c) ==
    /\ c \in in_progress
    /\ c.call = "handle_message"
    /\ learner' = [learner EXCEPT ![c.node] = learner_handle_message(@, c.msg)]
    /\ active_messages' = active_messages \ {MsgId(c.msg, 0)}
    /\ in_progress' = in_progress \ {c}
    /\ UNCHANGED <<config_vars, loop_pc, net_running, message_count, dropped_messages,
                   total_retries, threads, fifo, retry_timers, running, message_queue,
                   proposer, phase_timers, acceptor, sent, driver>>

\* the steps of a run on a network that loses no message
Next ==
    \/ \E p \in Proposers : Propose(p)
    \/ \E n \in AllNodes : Crash(n)
    \/ Stop
    \/ \E m \in threads : Deliver(m)
    \/ \E p \in Proposers : ProposerProcess(p)
    \/ \E a \in Acceptors : AcceptorProcess(a)
    \/ \E t \in phase_timers : PhaseTimeout(t)

\* the steps of a run on a lossy network
NextLossy ==
    \/ Next
    \/ \E t \in retry_timers, drop \in BOOLEAN : RetryMessage(t, drop)

\* simulate_paxos(1, 3, 1) with its default delay_range (0.0, 0.0) and
\* failure_rate 0.0, and a driver that crashes A1 and A2 at any time
Init ==
    Constructed({"P0", "A0", "A1", "A2", "L0"}, 0, "zero", {}, {}, {"P0"},
                {"A1", "A2"}, FALSE)

Spec == Init /\ [][Next]_vars

\* Two proposers, three acceptors, two learners and a paced driver; seven
\* messages of the run draw a delay that is not short.
ContendLongDraws ==
    {<<"P0", "A0", "accept", <<2, "P0">>, 0>>,
     <<"A2", "L1", "accepted", <<2, "P0">>, 0>>,
     <<"A0", "P1", "promise", <<2, "P1">>, 0>>}

ContendLateDraws ==
    {<<"P1", "A1", "prepare", <<2, "P1">>, 0>>,
     <<"P1", "A2", "prepare", <<2, "P1">>, 0>>,
     <<"P1", "A0", "prepare", <<4, "P1">>, 0>>,
     <<"P1", "A1", "prepare", <<4, "P1">>, 0>>}

InitContend ==
    Constructed({"P0", "P1", "A0", "A1", "A2", "L0", "L1"}, 0, "positive",
                ContendLongDraws, ContendLateDraws, {"P0", "P1"}, {}, TRUE)

NextContend ==
    \/ \E p \in Proposers : Propose(p)
    \/ \E m \in threads : Deliver(m)
    \/ \E p \in Proposers : ProposerProcess(p)
    \/ \E a \in Acceptors : AcceptorProcess(a)
    \/ \E t \in phase_timers : PhaseTimeout(t)

SpecContend == InitContend /\ [][NextContend]_vars

\* Two proposers that both propose, at any time, on a network with a fixed
\* delay; the driver crashes A2 at any time.
InitPair ==
    Constructed({"P0", "P1", "A0", "A1", "A2", "L0"}, 0, "fixed", {}, {},
                {"P0", "P1"}, {"A2"}, FALSE)

SpecPair == InitPair /\ [][Next]_vars

\* simulate_paxos(1, 3, 1) with a driver that crashes A1 at any time, under
\* the scheduling the threads of the program get: a started thread runs, a
\* queued message is taken, an armed timer fires, the driver goes on
InitLive ==
    Constructed({"P0", "A0", "A1", "A2", "L0"}, 0, "zero", {}, {}, {"P0"},
                {"A1"}, FALSE)

Fairness ==
    /\ WF_vars(\E p \in Proposers : Propose(p))
    /\ WF_vars(Stop)
    /\ WF_vars(\E m \in threads : Deliver(m))
    /\ WF_vars(\E p \in Proposers : ProposerProcess(p))
    /\ WF_vars(\E a \in Acceptors : AcceptorProcess(a))
    /\ WF_vars(\E t \in phase_timers : PhaseTimeout(t))

SpecLive == InitLive /\ [][Next]_vars /\ Fairness

\* simulate_paxos(1, 3, 1) with a driver that crashes A1 and A2 at any time,
\* under the same scheduling: the runs that may end undecided
SpecUndecided == Init /\ [][Next]_vars /\ Fairness

\* simulate_paxos(1, 5, 1, (d, d)) with a driver that crashes A0 and A1 at any
\* time
InitFive ==
    Constructed({"P0", "A0", "A1", "A2", "A3", "A4", "L0"}, 0, "fixed", {}, {},
                {"P0"}, {"A0", "A1"}, FALSE)

SpecFive == InitFive /\ [][Next]_vars /\ Fairness

\* simulate_paxos(1, 3, 1) with a driver that crashes A0 at any time, the
\* processing loops taken step by step
InitCrash ==
    Constructed({"P0", "A0", "A1", "A2", "L0"}, 0, "zero", {}, {}, {"P0"}, {"A0"},
                FALSE)

NextCrash ==
    \/ \E p \in Proposers : Propose(p)
    \/ \E n \in AllNodes : Crash(n)
    \/ Stop
    \/ \E m \in threads : Deliver(m)
    \/ \E n \in AllNodes : LoopTest(n)
    \/ \E n \in AllNodes : LoopTimeout(n)
    \/ \E p \in Proposers : ProposerLoopBody(p)
    \/ \E a \in Acceptors : AcceptorLoopBody(a)
    \/ \E t \in phase_timers : PhaseTimeout(t)

SpecCrash == InitCrash /\ [][NextCrash]_vars

\* headless_run(0.0, num_crashes) with num_crashes 0 or 2: two proposers, three
\* acceptors, two learners, no loss, in the runs where every delivery thread
\* runs as soon as it is started
InitScript ==
    /\ NodesConstructed({"P0", "P1", "A0", "A1", "A2", "L0", "L1"}, 0, "zero", {}, {})
    /\ \E crashes \in {{}, {"A1", "A2"}} :
           driver = [pc |-> "1a", leader |-> "P0", crash_schedule |-> crashes,
                     paced |-> TRUE, in_order |-> TRUE, round_cap |-> MaxRounds,
                     chosen_before |-> {}]

NextScript ==
    \/ ScriptPrepare
    \/ ScriptRecvPrepare
    \/ ScriptSendAccept
    \/ ScriptRecvAccept
    \/ ScriptCrash
    \/ ScriptStop
    \/ \E m \in threads : Deliver(m)
    \/ \E p \in Proposers : ProposerProcess(p)
    \/ \E a \in Acceptors : AcceptorProcess(a)
    \/ \E t \in phase_timers : PhaseTimeout(t)

SpecScript == InitScript /\ [][NextScript]_vars

\* simulate_paxos(1, 3, 1) with a paced driver that crashes A1 and A2, followed
\* through MaxRetryRounds rounds of the proposer
InitRetry ==
    ConstructedFor({"P0", "A0", "A1", "A2", "L0"}, 0, "zero", {}, {}, {"P0"},
                   {"A1", "A2"}, TRUE, MaxRetryRounds)

SpecRetry == InitRetry /\ [][Next]_vars

\* simulate_paxos(1, 3, 1) with a driver that crashes A1 and A2 at any time,
\* followed through MaxRetryRounds rounds of the proposer
InitEscalate ==
    ConstructedFor({"P0", "A0", "A1", "A2", "L0"}, 0, "zero", {}, {}, {"P0"},
                   {"A1", "A2"}, FALSE, MaxRetryRounds)

SpecEscalate == InitEscalate /\ [][Next]_vars

\* simulate_paxos(1, 1, 1, delay_range, failure_rate=0.5) with a paced driver
\* that crashes L0; the accepted message of A0 for (2,P0) to P0 draws a long
\* delay
InitLossy ==
    Constructed({"P0", "A0", "L0"}, 50, "positive",
                {<<"A0", "P0", "accepted", <<2, "P0">>, 0>>}, {}, {"P0"}, {"L0"},
                TRUE)

SpecLossy == InitLossy /\ [][NextLossy]_vars

\* simulate_paxos(1, 3, 1, failure_rate=r) with r 0.0 or 1.0 and a driver that
\* crashes A1 at any time
InitTotalLoss ==
    \E rate \in {0, 100} :
        Constructed({"P0", "A0", "A1", "A2", "L0"}, rate, "zero", {}, {}, {"P0"},
                    {"A1"}, FALSE)

SpecTotalLoss == InitTotalLoss /\ [][Next]_vars

\* simulate_paxos(1, 3, 1) with a driver that crashes P0 and A2 at any time
InitFreeze ==
    Constructed({"P0", "A0", "A1", "A2", "L0"}, 0, "zero", {}, {}, {"P0"},
                {"P0", "A2"}, FALSE)

SpecFreeze == InitFreeze /\ [][Next]_vars

\* simulate_paxos(1, 1, 1) with a driver that crashes L0 at any time, and
\* with the messages of FaultMessages handed to the network at any time
InitFault ==
    Constructed({"P0", "A0", "L0"}, 0, "zero", {}, {}, {"P0"}, {"L0"}, FALSE)

NextFault ==
    \/ Next
    \/ \E m \in FaultMessages : SendFault(m)

SpecFault == InitFault /\ [][NextFault]_vars

\* simulate_paxos(1, 2, 1) with a driver that crashes A1 at any time, with the
\* learner's handle_message and the acceptors' last send_message of a turn
\* taken step by step
InitRace ==
    Constructed({"P0", "A0", "A1", "L0"}, 0, "zero", {}, {}, {"P0"}, {"A1"}, FALSE)

NextRace ==
    \/ \E p \in Proposers : Propose(p)
    \/ \E n \in AllNodes : Crash(n)
    \/ Stop
    \/ \E m \in threads :
           /\ ~(m.receiver \in nodes \cap Learners /\ running[m.receiver])
           /\ Deliver(m)
    \/ \E m \in threads : HandlerEnter(m)
    \/ \E c \in in_progress : HandlerLeave(c)
    \/ \E p \in Proposers : ProposerProcess(p)
    \/ \E a \in Acceptors : Idle(a) /\ AcceptorProcess(a)
    \/ \E a \in Acceptors : AcceptorSendEnter(a)
    \/ \E c \in in_progress, drop \in BOOLEAN : SendLocked(c, drop)
    \/ \E t \in phase_timers : PhaseTimeout(t)

SpecRace == InitRace /\ [][NextRace]_vars

\* simulate_paxos(1, 3, 1, delay_range) with a driver that crashes A2 at any
\* time; the accepted messages of A0 and A1 for (2,P0) to P0 draw a long delay
InitLate ==
    Constructed({"P0", "A0", "A1", "A2", "L0"}, 0, "positive",
                {<<"A0", "P0", "accepted", <<2, "P0">>, 0>>,
                 <<"A1", "P0", "accepted", <<2, "P0">>, 0>>}, {}, {"P0"},
                {"A2"}, FALSE)

SpecLate == InitLate /\ [][Next]_vars

\* the steps of that run before the driver leaves its wait loop
NextRun ==
    \/ \E p \in Proposers : Propose(p)
    \/ \E n \in AllNodes : Crash(n)
    \/ \E m \in threads : Deliver(m)
    \/ \E p \in Proposers : ProposerProcess(p)
    \/ \E a \in Acceptors : AcceptorProcess(a)
    \/ \E t \in phase_timers : PhaseTimeout(t)

FairnessRun ==
    /\ WF_vars(\E p \in Proposers : Propose(p))
    /\ WF_vars(\E m \in threads : Deliver(m))
    /\ WF_vars(\E p \in Proposers : ProposerProcess(p))
    /\ WF_vars(\E a \in Acceptors : AcceptorProcess(a))
    /\ WF_vars(\E t \in phase_timers : PhaseTimeout(t))

\* the same run for as long as the driver waits, under the scheduling the
\* threads of the program get
SpecLateLive == InitLate /\ [][NextRun]_vars /\ FairnessRun

\* ------------------------------------------------------------ properties
\* the acceptors whose message of type msg_type for proposal_id was handed to
\* send_message with receiver as its destination
Senders(msg_type, receiver, proposal_id) ==
    {m.sender : m \in {x \in sent : /\ x.msg_type = msg_type
                                     /\ x.receiver = receiver
                                     /\ x.proposal_id = proposal_id}}

\* the values given to the proposers through set_proposal so far
ProposedValues ==
    {proposer[p].proposal_value : p \in DOMAIN proposer} \ {None}

\* C1: Agreement.  The non-null final_value values held by the learners never
\* contain two different values.
Agreement ==
    \A l1, l2 \in DOMAIN learner :
        learner[l1].final_value # None /\ learner[l2].final_value # None
            => learner[l1].final_value = learner[l2].final_value

\* the state invariant of acceptor a
AcceptorStateOk(a) ==
    /\ (acceptor[a].accepted_id # NoneID /\ acceptor[a].promised_id # NoneID)
           => IdLeq(acceptor[a].accepted_id, acceptor[a].promised_id)
    /\ acceptor[a].accepted_value # None <=> acceptor[a].accepted_id # NoneID

\* C2: Acceptor monotonicity.  promised_id of every acceptor never decreases
\* from one state to the next; accepted_id <= promised_id whenever both are
\* set; accepted_value is set exactly when accepted_id is.
AcceptorMonotone ==
    /\ [](\A a \in DOMAIN acceptor : AcceptorStateOk(a))
    /\ [][\A a \in DOMAIN acceptor :
              IdLeq(acceptor[a].promised_id, acceptor'[a].promised_id)]_vars

\* C2 happens: an acceptor that accepted one proposal has promised a higher one
AcceptorMonotoneWitness ==
    \E a \in DOMAIN acceptor :
        /\ acceptor[a].accepted_id # NoneID
        /\ IdLess(acceptor[a].accepted_id, acceptor[a].promised_id)

\* C3: Validity.  Every final_value of a learner and every value on which a
\* proposer recorded its decision was given to some proposer by set_proposal.
Validity ==
    /\ \A l \in DOMAIN learner :
           learner[l].final_proposal_id # NoneID
               => learner[l].final_value \in ProposedValues
    /\ \A p \in DOMAIN proposer :
           proposer[p].consensus_time # None
               => proposer[p].decision[2] \in ProposedValues

\* C3 happens: with two values proposed, the learner holds a final value and
\* the proposer that was given the other value has recorded its decision on it
ValidityWitness ==
    /\ ProposedValues = {"A", "B"}
    /\ learner["L0"].final_value = "A"
    /\ proposer["P1"].consensus_time # None
    /\ proposer["P1"].decision[2] = "A"

\* C4: Quorum honesty at the learner.  A tally that has reached quorum, and
\* every on_resolution call, has quorum_size distinct acceptors behind it that
\* sent the learner an accepted message for that proposal id.
QuorumHonesty ==
    \A l \in DOMAIN learner :
        /\ \A r \in learner[l].resolutions :
               Cardinality(Senders("accepted", l, r[1])) >= quorum_size
        /\ \A id \in DOMAIN learner[l].pending_accepted :
               learner[l].pending_accepted[id].count
                   <= Cardinality(Senders("accepted", l, id))

\* what the proposer reports once driver has left its wait loop
Decided == driver.pc = "stopped" /\ driver.consensus_before

\* C5: Liveness under favourable conditions.  With no loss, zero delay, one
\* proposer and a majority of acceptors that never crash, the proposer
\* eventually sets consensus_time and the driver reports decided.
EventuallyDecided ==
    <>(proposer["P0"].consensus_time # None /\ Decided)

\* C5 happens: the run has ended with the decision reported
EventuallyDecidedWitness ==
    /\ Decided
    /\ proposer["P0"].decision[2] = "A"
    /\ Cardinality(DOMAIN acceptor) = 3

\* a second delivery of msg to acceptor a, right after the first, gives the
\* same reply and leaves the acceptor's fields as the first left them
SameOnRedelivery(a, msg) ==
    LET first == acceptor_process(acceptor[a], a, msg)
        second == acceptor_process(first.a, a, msg)
    IN second.a = first.a /\ second.out = first.out

CountOk(entry, msg_type, p, id) ==
    /\ entry.count = Cardinality(entry.received)
    /\ entry.received \subseteq Senders(msg_type, p, id)

\* C7: No double-count at the proposer.  No promise or accepted message of an
\* acceptor raises a count twice for the same proposal id, and no count
\* exceeds the number of distinct acceptors that sent that message for that id.
NoDoubleCount ==
    \A p \in DOMAIN proposer :
        /\ proposer[p].recounted = {}
        /\ \A id \in DOMAIN proposer[p].pending_promises :
               CountOk(proposer[p].pending_promises[id], "promise", p, id)
        /\ \A id \in DOMAIN proposer[p].pending_accepts :
               CountOk(proposer[p].pending_accepts[id], "accepted", p, id)

\* C7 happens: an accepted message that had been counted arrived again and
\* was skipped
NoDoubleCountWitness ==
    \E p \in DOMAIN proposer :
        \E msg_id \in proposer[p].ignored :
            <<msg_id[2], msg_id[3], msg_id[1]>> \in proposer[p].counted

\* A1 and A2 are down and have never handled a message
MinorityOnly ==
    /\ ~running["A1"] /\ ~running["A2"]
    /\ acceptor["A1"] = InitAcceptor /\ acceptor["A2"] = InitAcceptor

\* C8: Quorum boundary, no progress.  With 3 acceptors of which 2 are crashed
\* before they handle any message, no proposer records a decision and no
\* learner sets final_value.
NoProgress ==
    MinorityOnly =>
        /\ \A p \in DOMAIN proposer : proposer[p].consensus_time = None
        /\ \A l \in DOMAIN learner : /\ learner[l].final_value = None
                                      /\ learner[l].resolutions = {}

\* C8 happens: with A1 and A2 down from the start, the proposer has sent a
\* second prepare and the remaining acceptor has promised it
NoProgressWitness ==
    /\ MinorityOnly
    /\ quorum_size = 2
    /\ proposer["P0"].rounds = 2
    /\ acceptor["A0"].promised_id = proposer["P0"].proposal_id

\* C9: Quorum boundary, progress.  With one proposer, 5 acceptors, one learner,
\* no loss, and A0 and A1 crashing at any point, the run eventually decides.
EventuallyDecidedFive == <>Decided

\* C9 happens: the run has ended decided with A0 and A1 crashed before either
\* handled a message
EventuallyDecidedFiveWitness ==
    /\ Decided
    /\ quorum_size = 3
    /\ ~running["A0"] /\ ~running["A1"]
    /\ acceptor["A0"] = InitAcceptor /\ acceptor["A1"] = InitAcceptor

\* C10: Proposal ids are fresh and increasing.  Every prepare() sets a proposal
\* id strictly greater than every id the proposer used before, and no two
\* proposals of the run share an id.
FreshIds ==
    /\ \A p \in DOMAIN proposer :
           LET ids == proposer[p].ids_used
           IN /\ \A i, j \in 1..Len(ids) : i < j => IdLess(ids[i], ids[j])
              /\ Len(ids) > 0 => proposer[p].proposal_id = ids[Len(ids)]
    /\ \A p, q \in DOMAIN proposer :
           p # q => \A i \in 1..Len(proposer[p].ids_used),
                       j \in 1..Len(proposer[q].ids_used) :
                           proposer[p].ids_used[i] # proposer[q].ids_used[j]

\* C10 happens: one proposer is on its retry after a prepare timeout while the
\* other has prepared too
FreshIdsWitness ==
    /\ Len(proposer["P1"].ids_used) = 2
    /\ Len(proposer["P0"].ids_used) = 1

\* C11: Prepare retries are capped.  With 3 acceptors of which 2 are crashed
\* from the start, promise quorum is never reached and the proposer calls
\* prepare() at most MAX_PHASE_RETRIES times before it gives up.
PrepareRetriesCapped ==
    (MinorityOnly /\ driver.pc # "stopped") =>
        \A p \in DOMAIN proposer :
            /\ Len(proposer[p].ids_used) <= MAX_PHASE_RETRIES
            /\ proposer[p].rounds <= MAX_PHASE_RETRIES

\* C12: Leader-crash scenario preserves a chosen value.  P0 proposes A and
\* crashes, then P1 proposes B: if a quorum of acceptors had accepted A under
\* one proposal id before P1's proposal, every final_value of a learner is A
\* and no acceptor holds B as its accepted value afterwards.
LeaderCrashKeepsChosen ==
    "A" \in driver.chosen_before =>
        /\ \A l \in DOMAIN learner : learner[l].final_value \in {None, "A"}
        /\ \A a \in DOMAIN acceptor : acceptor[a].accepted_value # "B"

\* C13: Learner decision is final.  Once final_value of a learner is set, it
\* has the same value in every later state, whatever accepted messages arrive.
FinalValueStable ==
    [][\A l \in DOMAIN learner :
           learner[l].final_value # None
               => learner'[l].final_value = learner[l].final_value]_vars

\* C13 happens: a learner that holds final_value A has been handed an accepted
\* message that carries B
FinalValueStableWitness ==
    \E l \in DOMAIN learner :
        /\ learner[l].final_value = "A"
        /\ \E m \in sent \ threads : /\ m.msg_type = "accepted"
                                      /\ m.receiver = l
                                      /\ m.accepted_value = "B"

\* no message is handed to send_message by a node whose run flag is cleared
SilentAfterCrash ==
    \A m \in sent' \ sent : running[m.sender]

\* a node whose run flag is cleared takes no message from its queue, and a
\* learner in that state handles none
DeafAfterCrash ==
    /\ \A n \in DOMAIN message_queue :
           ~running[n] => message_queue'[n] = message_queue[n]
    /\ \A l \in DOMAIN learner : ~running[l] => learner'[l] = learner[l]

\* C14: Crash silences a node.  From the moment the run flag of a node is
\* cleared, the node hands no further message to the network and processes no
\* further inbound message, however the crash interleaves with its loop.
CrashSilences == [][SilentAfterCrash /\ DeafAfterCrash]_vars

\* in this step a message is handed to node n: handle_message(msg) puts it on
\* the queue of n or, for a learner, tallies it
Handed(n) ==
    IF n \in DOMAIN message_queue
    THEN Len(message_queue'[n]) > Len(message_queue[n])
    ELSE learner'[n] # learner[n]

\* C15: Delivery guard.  A message is handed to a registered receiver only
\* while the network is running and the receiver has not crashed; no message
\* is handed to any node after stop().
DeliveryGuard ==
    [][\A n \in nodes : Handed(n) => net_running /\ running[n]]_vars

StalePromisesIgnored ==
    \A p \in DOMAIN proposer :
        /\ proposer[p].promises_rcvd
               \subseteq Senders("promise", p, proposer[p].proposal_id)
        /\ \A m \in sent :
               (m.msg_type = "accept" /\ m.sender = p)
                   => Cardinality(Senders("promise", p, m.proposal_id))
                          >= quorum_size

\* the promises for the current id of q, sent to p by the acceptors counted in
\* the quorum q, that report an accepted pair
Reported(p, q) ==
    {m \in sent : /\ m.msg_type = "promise"
                  /\ m.receiver = p
                  /\ m.sender \in q.from
                  /\ m.proposal_id = q.current
                  /\ m.accepted_value # None}

\* the quorum q of p is made of promises for the current id: each acceptor in
\* it had its promise for that id counted
ForCurrentId(p, q) ==
    \A a \in q.from : <<"promise", q.current, a>> \in proposer[p].counted

\* the value the accept of quorum q has to carry
SelectedValue(p, q) ==
    IF Reported(p, q) = {} THEN q.own
    ELSE (CHOOSE m \in Reported(p, q) :
              \A x \in Reported(p, q) : IdLeq(x.previous_id, m.previous_id)
         ).accepted_value

\* C18: Value selection at promise quorum.  When a proposer reaches the promise
\* quorum for its current id, the accept it sends carries the current id and
\* the value of the highest-id accepted pair reported by the promises counted
\* in the quorum, or the proposer's own value when none reported a pair.
ValueSelection ==
    \A p \in DOMAIN proposer :
        \A q \in proposer[p].quorums :
            ForCurrentId(p, q) =>
                /\ q.id = q.current
                /\ q.value = SelectedValue(p, q)
                /\ \A a \in RegisteredAcceptors :
                       NetworkMessage("accept", p, a, q.id, NoneID, q.value) \in sent

\* C18 happens: one proposer sent its own value, the other one the value of
\* the accepted pair that its promises reported
ValueSelectionWitness ==
    /\ \E q \in proposer["P0"].quorums :
           ForCurrentId("P0", q) /\ Reported("P0", q) = {} /\ q.value = "A"
    /\ \E q \in proposer["P1"].quorums :
           ForCurrentId("P1", q) /\ Reported("P1", q) # {} /\ q.value = "A"

\* C19: Proposer phase invariant.  In every reachable state a proposer whose
\* phase is accept has quorum_reached true and its proposal id set; and
\* send_accept called while quorum_reached is false sends nothing, arms no
\* timer and leaves the proposer, its phase included, as it was.
PhaseInvariant ==
    /\ [](\A p \in DOMAIN proposer :
             proposer[p].current_phase = "accept"
                 => proposer[p].quorum_reached /\ proposer[p].proposal_id # NoneID)
    /\ [][(/\ driver.pc = "2a"
           /\ driver'.pc = "2b"
           /\ ~proposer[driver.leader].quorum_reached)
              => /\ proposer' = proposer
                 /\ sent' = sent
                 /\ threads' = threads
                 /\ phase_timers' = phase_timers]_vars

\* C19 happens: the driver has called send_accept on P1, which had not reached
\* the promise quorum and is still in its prepare phase, while P0 is in its
\* accept phase
PhaseInvariantWitness ==
    /\ driver.pc = "2b"
    /\ driver.leader = "P1"
    /\ ~proposer["P1"].quorum_reached
    /\ proposer["P1"].current_phase = "prepare"
    /\ proposer["P0"].current_phase = "accept"

\* the accept messages of p for (id, value), one for each acceptor
AcceptBroadcast(p, id, value) ==
    {NetworkMessage("accept", p, a, id, NoneID, value) : a \in RegisteredAcceptors}

\* the accept timer of p for id is armed and will find the quorum missing with
\* the retry cap not reached
AcceptRetryDue(p, id) ==
    /\ <<p, "accept", id>> \in phase_timers
    /\ id \in DOMAIN proposer[p].pending_accepts
    /\ proposer[p].pending_accepts[id].count < quorum_size
    /\ proposer[p].pending_accepts[id].retry_count + 1 < MAX_PHASE_RETRIES
    /\ running[p]

\* what _check_accept_timeout does then: the accept for the same id and the
\* value of the original accept is handed to the network again, and the
\* current proposal id stays
RetryKeepsProposal(p, id) ==
    LET e == check_accept_timeout(proposer[p], p, id)
        value == proposer[p].pending_accepts[id].value
    IN /\ e.out = AcceptBroadcast(p, id, value)
       /\ e.out \subseteq sent
       /\ e.p.proposal_id = proposer[p].proposal_id
       /\ e.p.pending_accepts[id].value = value

\* in this step p starts a round without calling prepare(): an accept retry
AcceptRetryStep(p) ==
    /\ proposer'[p].rounds = proposer[p].rounds + 1
    /\ proposer'[p].ids_used = proposer[p].ids_used

\* C20: Accept retry keeps the proposal.  When the accept timer expires
\* without accepted quorum and below the retry cap, the proposer re-sends
\* accept with the same proposal id and the same value as the original accept,
\* and its current proposal id is unchanged.
AcceptRetryKeeps ==
    /\ [](\A p \in DOMAIN proposer :
             \A id \in DOMAIN proposer[p].pending_accepts :
                 AcceptRetryDue(p, id) => RetryKeepsProposal(p, id))
    /\ [][\A p \in DOMAIN proposer :
              AcceptRetryStep(p) =>
                  /\ proposer'[p].proposal_id = proposer[p].proposal_id
                  /\ sent' = sent
                  /\ \E id \in DOMAIN proposer[p].pending_accepts :
                         /\ AcceptRetryDue(p, id)
                         /\ threads' \ threads \subseteq
                                AcceptBroadcast(p, id,
                                    proposer[p].pending_accepts[id].value)]_vars

\* C20 happens: a proposer has re-sent its accept after an accept timeout
\* without a new prepare, and the re-sent accept is on its way to an acceptor
AcceptRetryKeepsWitness ==
    \E p \in DOMAIN proposer :
        /\ proposer[p].rounds = Len(proposer[p].ids_used) + 1
        /\ proposer[p].current_phase = "accept"
        /\ \E id \in DOMAIN proposer[p].pending_accepts :
               AcceptBroadcast(p, id, proposer[p].pending_accepts[id].value)
                   \cap threads # {}

\* C21: Accept retries escalate.  If the accept timer of a proposal keeps
\* expiring without accepted quorum, the proposer re-sends that accept fewer
\* than MAX_PHASE_RETRIES times and then restarts from prepare(): a proposer
\* that has run prepare() once has, while the network runs, started fewer
\* than MAX_PHASE_RETRIES rounds by accept re-sends.
AcceptRetriesEscalate ==
    \A p \in DOMAIN proposer :
        (net_running /\ Len(proposer[p].ids_used) = 1) =>
            proposer[p].rounds - 1 < MAX_PHASE_RETRIES

\* the accepted messages p counts in this step
NewlyCounted(p) ==
    {k \in proposer'[p].counted \ proposer[p].counted : k[1] = "accepted"}

\* C22: Proposer decision is recorded once.  The proposer counts an accepted
\* message only in the accept phase and for its current proposal id; when the
\* count reaches quorum_size it sets consensus_time and leaves the accept
\* phase; and consensus_time, once set, stays as it is.
DecisionRecordedOnce ==
    [][\A p \in DOMAIN proposer :
          /\ \A k \in NewlyCounted(p) :
                 /\ proposer[p].current_phase = "accept"
                 /\ k[2] = proposer[p].proposal_id
                 /\ Cardinality({j \in proposer'[p].counted :
                                    j[1] = "accepted" /\ j[2] = k[2]}) >= quorum_size
                        => /\ proposer'[p].consensus_time # None
                           /\ proposer'[p].current_phase # "accept"
          /\ proposer[p].consensus_time # None =>
                 /\ proposer'[p].consensus_time = proposer[p].consensus_time
                 /\ proposer'[p].decision = proposer[p].decision]_vars

\* C23: Round counter.  In every reachable state the rounds value of a
\* proposer is the number of times prepare() has run on it.
RoundCounter ==
    \A p \in DOMAIN proposer : proposer[p].rounds = Len(proposer[p].ids_used)

\* the tokens of the messages in flight: those with a delivery thread and
\* those waiting for a resend
ThreadTokens == {MsgId(m, 0) : m \in threads}
TimerTokens == {t.msg_id : t \in retry_timers}

\* C24: Token de-duplication.  A send whose token is in the active set
\* schedules nothing and counts nothing, so while the network runs the active
\* set is exactly the set of tokens in flight, each with one delivery thread
\* or one retry timer; and a token leaves the active set only when its
\* message is delivered or discarded, or at shutdown.
TokenDedup ==
    /\ [](net_running =>
            /\ active_messages = ThreadTokens \cup TimerTokens
            /\ ThreadTokens \cap TimerTokens = {}
            /\ Cardinality(threads) = Cardinality(ThreadTokens)
            /\ Cardinality(retry_timers) = Cardinality(TimerTokens))
    /\ [][/\ message_count' - message_count =
                 Cardinality(active_messages' \ active_messages)
          /\ \A k \in active_messages \ active_messages' :
                 \/ ~net_running'
                 \/ k \in ThreadTokens \ ThreadTokens'
                 \/ k \in TimerTokens \ TimerTokens']_vars

\* C24 happens: with nothing dropped so far, A0 has taken the accept for
\* (2,P0) and its re-send, and has sent accepted to P0 the second time while
\* the first is in flight
TokenDedupWitness ==
    /\ net_running
    /\ dropped_messages = 0
    /\ proposer["P0"].rounds = 2
    /\ Len(proposer["P0"].ids_used) = 1
    /\ <<"A0", "P0", "accepted", <<2, "P0">>, 0>> \in ThreadTokens
    /\ message_queue["A0"] = <<>>
    /\ ~\E m \in threads : m.msg_type = "accept"
    /\ ~\E t \in retry_timers : t.message.msg_type = "accept"

\* the resend attempts of the message of retry timer t made so far, all of
\* them dropped: the timer armed by send_message carries attempt 1, and each
\* resend attempt that is dropped arms the next one with attempt + 1
ResendsDropped(t) == t.attempt - 1

\* in this step the network, while running, gives up the message of t, which
\* is addressed to a running proposer or acceptor: the token leaves the active
\* set, no timer follows and nothing is queued
TerminalDiscard(t) ==
    /\ net_running /\ net_running'
    /\ t.msg_id \in active_messages \ active_messages'
    /\ t.msg_id \notin {u.msg_id : u \in retry_timers'}
    /\ t.message.receiver \in nodes \ Learners
    /\ running[t.message.receiver]
    /\ message_queue' = message_queue

\* C25: Network retry budget.  A message dropped on send is given up only
\* after max_retries resend attempts were made and dropped.
RetryBudget ==
    [][\A t \in retry_timers :
          TerminalDiscard(t) => ResendsDropped(t) = max_retries]_vars

\* C26: Retry backoff.  The wait before the k-th resend of a dropped message
\* (k = 0 for the first) is min(0.5 s * 2^k, 5 s): every armed retry timer,
\* which waits for resend number attempt - 1, carries that delay.
RetryBackoffDelay ==
    \A t \in retry_timers :
        t.delay = Min(SEND_BACKOFF_BASE * 2^(t.attempt - 1), SEND_BACKOFF_CAP)

\* C28: Retry counter.  total_retries rises by one each time the network
\* schedules a resend of a dropped message: in every step by the number of
\* retry timers the step arms; so a run with a loss rate below 1 in which a
\* message was dropped, and hence scheduled for resend, ends with
\* total_retries > 0.
RetryCounter ==
    /\ [][total_retries' - total_retries =
              Cardinality(retry_timers' \ retry_timers)]_vars
    /\ []((driver.pc = "stopped" /\ dropped_messages > 0) => total_retries > 0)

\* C27: Total loss.  With drop rate 1.0 every message sent while the network
\* runs is counted as sent and as dropped, no retry is scheduled, no token
\* stays in the active set, and no node ever receives a message.
TotalLoss ==
    /\ [](failure_rate >= 100 =>
            /\ dropped_messages = message_count
            /\ retry_timers = {} /\ total_retries = 0
            /\ active_messages = {}
            /\ threads = {}
            /\ \A n \in DOMAIN message_queue : message_queue[n] = <<>>
            /\ \A a \in DOMAIN acceptor : acceptor[a] = InitAcceptor
            /\ \A l \in DOMAIN learner : learner[l] = InitLearner
            /\ \A p \in DOMAIN proposer : proposer[p].processed_messages = {})
    /\ [][(failure_rate >= 100 /\ net_running) =>
              message_count' - message_count = Cardinality(sent' \ sent)]_vars

\* C27 happens: under total loss the proposer has sent the prepares of two
\* rounds
TotalLossWitness ==
    /\ failure_rate >= 100
    /\ net_running
    /\ proposer["P0"].rounds = 2
    /\ message_count = 2 * Cardinality(RegisteredAcceptors)

\* msg is a prepare or an accept request for a, with an id lower than the one
\* a has promised
StaleFor(a, msg) ==
    /\ msg.receiver = a
    /\ msg.msg_type \in {"prepare", "accept"}
    /\ IdLess(msg.proposal_id, acceptor[a].promised_id)

\* C29: Stale requests are rejected.  An acceptor that has promised id p
\* answers a prepare with a lower id with no promise and does not accept an
\* accept request with a lower id: its fields stay as they are and it sends
\* nothing.  This holds for every request sent to it, and for the request it
\* takes from its queue.
StaleRejected ==
    /\ [](\A a \in DOMAIN acceptor : \A msg \in sent :
             StaleFor(a, msg) =>
                 acceptor_process(acceptor[a], a, msg) =
                     [a |-> acceptor[a], out |-> {}])
    /\ [][\A a \in DOMAIN acceptor :
              (/\ message_queue[a] # <<>>
               /\ message_queue'[a] = Tail(message_queue[a])
               /\ StaleFor(a, Head(message_queue[a])))
                  => /\ acceptor'[a] = acceptor[a]
                     /\ sent' = sent
                     /\ message_count' = message_count
                     /\ threads' = threads]_vars

\* a running acceptor has taken msg, a request of the given type with an id
\* lower than the one it has promised, and has not answered it
TookStale(msg_type) ==
    \E a \in DOMAIN acceptor : \E msg \in sent :
        /\ running[a]
        /\ StaleFor(a, msg) /\ msg.msg_type = msg_type
        /\ msg \notin threads
        /\ message_queue[a] = <<>>
        /\ ~\E x \in sent : /\ x.msg_type \in {"promise", "accepted"}
                             /\ x.sender = a
                             /\ x.proposal_id = msg.proposal_id

\* C29 happens: an acceptor has taken a stale prepare and an acceptor has
\* taken a stale accept request
StaleRejectedWitness == TookStale("prepare") /\ TookStale("accept")

\* C30: One value per proposal id.  All accept messages sent under one
\* proposal id carry the same value, and so do all accepted notifications
\* sent to one learner under one proposal id, in the runs of the scripted
\* driver as well.
OneValuePerId ==
    \A m1, m2 \in sent :
        (/\ m1.msg_type = m2.msg_type
         /\ m1.proposal_id = m2.proposal_id
         /\ \/ m1.msg_type = "accept"
            \/ m1.msg_type = "accepted" /\ m1.receiver = m2.receiver
                                       /\ m1.receiver \in Learners)
            => m1.accepted_value = m2.accepted_value

\* what the callback of phase timer t does to the proposer when it fires now
TimerEffect(t) ==
    IF t[2] = "promise"
    THEN check_promise_timeout(proposer[t[1]], t[1], t[3])
    ELSE check_accept_timeout(proposer[t[1]], t[1], t[3])

\* the proposal of phase timer t has reached its quorum, or the proposer has
\* left the phase the timer was armed in
StaleTimer(t) ==
    LET pr == proposer[t[1]]
    IN IF t[2] = "promise"
       THEN \/ t[3] \notin DOMAIN pr.pending_promises
            \/ pr.current_phase # "prepare"
            \/ pr.proposal_id # t[3]
       ELSE \/ t[3] \notin DOMAIN pr.pending_accepts
            \/ pr.current_phase # "accept"

\* C32: Stale timer firings are no-ops.  A promise or accept timer of a
\* running proposer that fires after its proposal has reached quorum, or after
\* the phase has moved on, changes no proposer field, sends no message and
\* arms no timer.
StaleTimersNoOp ==
    \A t \in phase_timers :
        (running[t[1]] /\ TimerMayExpire /\ StaleTimer(t)) =>
            TimerEffect(t) = Eff(proposer[t[1]], {}, {})

\* C35: Crash freezes state.  Once the run flag of a node is cleared, no
\* timer callback, delivery or processing loop changes any of its fields any
\* more (the steps that leave the driver where it is), also when a phase timer
\* armed before the crash fires after it.
CrashFreezes ==
    [][driver' = driver =>
          /\ \A p \in DOMAIN proposer :
                ~running[p] => proposer'[p] = proposer[p]
          /\ \A a \in DOMAIN acceptor :
                ~running[a] => acceptor'[a] = acceptor[a]
          /\ \A l \in DOMAIN learner :
                ~running[l] => learner'[l] = learner[l]]_vars

\* the acceptors that handed an accepted message for (id, value) to the network
AcceptedBy(id, value) ==
    {m.sender : m \in {x \in sent : /\ x.msg_type = "accepted"
                                     /\ x.proposal_id = id
                                     /\ x.accepted_value = value}}

\* C36: Proposer decision implies a chosen value.  Whenever a proposer has
\* recorded a decision for proposal id i and value v, at least quorum_size
\* distinct acceptors have accepted (i, v), also when the accept for i was
\* re-sent after accept timeouts.
DecisionChosen ==
    \A p \in DOMAIN proposer :
        proposer[p].decision # NonePair =>
            Cardinality(AcceptedBy(proposer[p].decision[1],
                                   proposer[p].decision[2])
                            \cap RegisteredAcceptors) >= quorum_size

\* C36 happens: a proposer has recorded its decision in a round it started by
\* re-sending the accept after an accept timeout
DecisionChosenWitness ==
    \E p \in DOMAIN proposer :
        /\ proposer[p].decision # NonePair
        /\ proposer[p].rounds > Len(proposer[p].ids_used)
        /\ net_running

\* p is in the accept phase for its proposal id, and a quorum of acceptors
\* that run and will not be crashed have accepted that id and handed their
\* accepted message for p to the network
AcceptedQuorum(p) ==
    /\ running[p]
    /\ proposer[p].current_phase = "accept"
    /\ proposer[p].proposal_id \in DOMAIN proposer[p].pending_accepts
    /\ Cardinality({a \in Senders("accepted", p, proposer[p].proposal_id) :
                        /\ running[a]
                        /\ a \notin driver.crash_schedule
                        /\ acceptor[a].accepted_id = proposer[p].proposal_id})
           >= quorum_size

\* C37: Accepted quorum leads to decision.  If the proposer is in the accept
\* phase for id i, at least quorum_size non-crashed acceptors accept i, the
\* proposer does not crash and every accepted message is delivered, then the
\* proposer eventually records its decision, whatever the interleaving of
\* accept timeouts and re-sends with the arrival of the accepted messages.
AcceptedQuorumDecides ==
    \A p \in Proposers :
        (p \in DOMAIN proposer /\ AcceptedQuorum(p))
            ~> (p \in DOMAIN proposer /\ proposer[p].consensus_time # None)

\* C39: Counter consistency.  In every reachable state the network's
\* dropped_messages counter is at most its message_count counter, and with
\* drop rate 0 dropped_messages and total_retries stay 0.
CounterConsistency ==
    /\ dropped_messages <= message_count
    /\ failure_rate = 0 => dropped_messages = 0 /\ total_retries = 0

\* the acceptors whose accepted message for id the loop of p has not taken
\* yet and that may still send or have sent it
Uncounted(p, id) ==
    {a \in RegisteredAcceptors :
        /\ <<a, "accepted", id>> \notin proposer[p].processed_messages
        /\ running[a] \/ a \in Senders("accepted", p, id)}

\* p is in the accept phase for id, undecided, and the count of its entry
\* cannot reach the quorum any more: the accepted messages that the loop has
\* not taken yet are too few
OutOfReach(p, id) ==
    /\ proposer[p].current_phase = "accept"
    /\ proposer[p].consensus_time = None
    /\ id \in DOMAIN proposer[p].pending_accepts
    /\ proposer[p].pending_accepts[id].retry_count = 0
    /\ proposer[p].pending_accepts[id].count + Cardinality(Uncounted(p, id))
           < quorum_size

\* The state the counterexample of C37 ends in lasts: no step takes the
\* proposer out of it, and the accept timer, whenever it fires there, leaves
\* the proposer in it, with the timer armed again.
OutOfReachLasts ==
    /\ [][\A p \in DOMAIN proposer :
              OutOfReach(p, proposer[p].proposal_id)
                  => OutOfReach(p, proposer[p].proposal_id)']_vars
    /\ [](\A t \in phase_timers :
             (t[2] = "accept" /\ running[t[1]] /\ net_running
              /\ OutOfReach(t[1], t[3])) =>
                 LET e == check_accept_timeout(proposer[t[1]], t[1], t[3])
                 IN /\ e.arm = {t}
                    /\ e.p.current_phase = "accept"
                    /\ e.p.consensus_time = None
                    /\ e.p.pending_accepts[t[3]].count = 0
                    /\ e.p.pending_accepts[t[3]].retry_count = 0
                    /\ e.p.processed_messages = proposer[t[1]].processed_messages)

\* no delivery is pending, no network retry is pending and no phase timer of
\* a proposer is armed
Quiescent ==
    /\ threads = {}
    /\ retry_timers = {}
    /\ phase_timers = {}

\* C38: Quiescence after shutdown.  Once network.stop() has been called, the
\* system eventually reaches a state with no pending delivery, no pending
\* network retry and no armed proposer phase timer, including when the run
\* stopped undecided.
QuiescenceAfterStop == ~net_running ~> Quiescent

\* the fields of a proposer that the protocol reads; processed_messages is the
\* loop's record of the messages it has taken
ProtocolState(pr) == [pr EXCEPT !.processed_messages = {}]

\* in this step the delivery thread of m runs
Delivered(m) == m \in threads /\ m \notin threads'

\* in this step the processing loop of n takes a message of FaultMessages
\* from its queue
TakesFault(n) ==
    /\ message_queue[n] # <<>>
    /\ Head(message_queue[n]) \in FaultMessages
    /\ message_queue'[n] = Tail(message_queue[n])

\* C34: Programmer faults are contained.  A message addressed to an
\* unregistered receiver, or of a kind the receiving role does not handle, is
\* discarded with its token removed from the active set, changes no node's
\* protocol state, and the receiving node's loop keeps handling later
\* messages: the token is held only while the delivery is pending; the
\* delivery removes it, changes no node, and queues nothing for a receiver
\* that is not registered; the loop that takes the message changes no node's
\* protocol state, sends nothing, arms nothing, and goes on running with the
\* rest of its queue.
FaultsContained ==
    /\ [](\A m \in FaultMessages :
             (net_running /\ MsgId(m, 0) \in active_messages) => m \in threads)
    /\ [][\A m \in FaultMessages :
              Delivered(m) =>
                  /\ MsgId(m, 0) \notin active_messages'
                  /\ proposer' = proposer
                  /\ acceptor' = acceptor
                  /\ learner' = learner
                  /\ m.receiver \notin nodes => message_queue' = message_queue]_vars
    /\ [][\A n \in DOMAIN message_queue :
              TakesFault(n) =>
                  /\ acceptor' = acceptor
                  /\ learner' = learner
                  /\ \A p \in DOMAIN proposer :
                         ProtocolState(proposer'[p]) = ProtocolState(proposer[p])
                  /\ sent' = sent
                  /\ threads' = threads
                  /\ phase_timers' = phase_timers
                  /\ running' = running
                  /\ loop_pc' = loop_pc]_vars

\* C34 happens: every message of FaultMessages was sent, delivered and, where
\* it was queued, taken by the loop of its receiver; no token is left, and
\* the acceptor and the proposer have gone through the protocol to the
\* decision
FaultsContainedWitness ==
    /\ FaultMessages \subseteq sent
    /\ FaultMessages \cap threads = {}
    /\ \A n \in DOMAIN message_queue : message_queue[n] = <<>>
    /\ active_messages = {}
    /\ net_running
    /\ running["P0"] /\ running["A0"]
    /\ proposer["P0"].decision # NonePair
    /\ acceptor["A0"].accepted_id # NoneID

\* the calls of handle_message of node n that have been entered and not left
Handlers(n) == {c \in in_progress : c.call = "handle_message" /\ c.node = n}

\* C31: Serial handling inside a node.  For every node of every role, no two
\* message handlers of that node execute at the same time, whoever started
\* them.
SerialHandling == \A n \in nodes : Cardinality(Handlers(n)) <= 1

\* C33: Mutual exclusion on the network's shared state.  The bookkeeping of
\* send_message and stop() never run concurrently, so no interleaving of
\* stop() with a send leaves a token in the active set after shutdown.
StopExcludesSend == ~net_running => active_messages = {}

\* after stop(), with nothing left to deliver or to handle, the promise timer
\* t of a running proposer will find its quorum missing
TimerChain(t) ==
    /\ ~net_running
    /\ threads = {}
    /\ retry_timers = {}
    /\ ~NodeBusy
    /\ t[2] = "promise"
    /\ running[t[1]]
    /\ t[3] \in DOMAIN proposer[t[1]].pending_promises
    /\ proposer[t[1]].pending_promises[t[3]].count < quorum_size
    /\ proposer[t[1]].pending_promises[t[3]].retry_count + 1 < MAX_PHASE_RETRIES

\* The state the counterexample of C38 ends in goes on for ever: the firing
\* of such a timer sends nothing and arms a promise timer of the same kind,
\* for a new proposal id whose entry has no promise and no retry counted.
TimerChainGoesOn ==
    \A t \in phase_timers :
        TimerChain(t) =>
            LET e == check_promise_timeout(proposer[t[1]], t[1], t[3])
            IN /\ Registered(e.out) = {}
               /\ Cardinality(e.arm) = 1
               /\ \A u \in e.arm :
                      /\ u[1] = t[1]
                      /\ u[2] = "promise"
                      /\ u[3] # t[3]
                      /\ u[3] \in DOMAIN e.p.pending_promises
                      /\ e.p.pending_promises[u[3]].count = 0
                      /\ e.p.pending_promises[u[3]].retry_count = 0

====
